---- MODULE Spec2Model ----
(***************************************************************************)
(* Model of the adaptive chunked transcription worker                      *)
(* (src/unnamed/part_000: resolveUrl, mergeResults, processChunk and the   *)
(* fetch handler), and of the client-driven variant                        *)
(* (src/scripts/chunk-transcriber.ts: run, mergeResults; and the           *)
(* one-chunk-per-request worker src/unnamed/part_003: fetch).              *)
(*                                                                         *)
(* Numbers that can be NaN in the program (results of parseInt) are        *)
(* records [nan, v]; byte counts are exact; times are integers in          *)
(* milliseconds, so the program's 1e-3 s epsilon is 1.                     *)
(* Strings the program parses are sequences of one-character strings.      *)
(***************************************************************************)
EXTENDS Integers, Sequences, FiniteSets, TLC

\* ------------------------------------------------------------------------
\* Program constants (src/unnamed/part_000:6-11)
\* ------------------------------------------------------------------------
DEFAULT_CHUNK_SIZE == 8 * 1024 * 1024
SMALL_FILE_LIMIT == 20 * 1024 * 1024
MEDIUM_FILE_LIMIT == 50 * 1024 * 1024
SAFE_CHUNK_SIZE == 2 * 1024 * 1024
SAFE_PARALLEL == 3
DEFAULT_PARALLEL == 10
\* the two literals of the medium branch (part_000:223)
MEDIUM_SPLIT_LIMIT == 40 * 1024 * 1024
MEDIUM_SMALL_CHUNK == 4 * 1024 * 1024
\* number of leading bytes the payload guard decodes (part_000:131)
HEAD_BYTES == 64
\* 1e-3 seconds, in milliseconds (part_000:95)
EPSILON == 1

\* ------------------------------------------------------------------------
\* JavaScript values
\* ------------------------------------------------------------------------
NaN == [nan |-> TRUE, v |-> 0]
Num(n) == [nan |-> FALSE, v |-> n]
\* x > n, x < n ... are false when x is NaN
NumGt(x, n) == (~x.nan) /\ x.v > n
NumLe(x, n) == (~x.nan) /\ x.v <= n
NumEq(x, n) == (~x.nan) /\ x.v = n
\* truthiness of a number: NaN and 0 are falsy
Truthy(x) == (~x.nan) /\ x.v # 0
\* the result of searchParams.get / headers.get: null or a string
Null == [isNull |-> TRUE, s |-> <<>>]
Str(s) == [isNull |-> FALSE, s |-> s]
\* p || ""
OrEmpty(p) == IF p.isNull THEN <<>> ELSE p.s
\* !p for a string-or-null
Falsy(p) == p.isNull \/ p.s = <<>>

Min(a, b) == IF a <= b THEN a ELSE b
Max(a, b) == IF a >= b THEN a ELSE b

DigitChars == <<"0", "1", "2", "3", "4", "5", "6", "7", "8", "9">>
IsDigit(c) == \E i \in 1..10 : DigitChars[i] = c
DigitVal(c) == (CHOOSE i \in 1..10 : DigitChars[i] = c) - 1
IsSpace(c) == c = " "

\* decimal numeral of a natural number, as the origin writes it
RECURSIVE Numeral(_)
Numeral(n) == IF n < 10 THEN <<DigitChars[n + 1]>>
              ELSE Numeral(n \div 10) \o <<DigitChars[(n % 10) + 1]>>

RECURSIVE SkipSpaces(_)
SkipSpaces(s) == IF s # <<>> /\ IsSpace(Head(s)) THEN SkipSpaces(Tail(s)) ELSE s

\* value of the longest digit prefix of s, continuing from acc
RECURSIVE DigitPrefix(_, _)
DigitPrefix(s, acc) == IF s # <<>> /\ IsDigit(Head(s))
                       THEN DigitPrefix(Tail(s), acc * 10 + DigitVal(Head(s)))
                       ELSE acc

\* parseInt(s, 10): leading blanks, optional sign, longest digit prefix;
\* NaN when there is no digit
parseInt(s) ==
    LET t == SkipSpaces(s)
        neg == t # <<>> /\ Head(t) = "-"
        u == IF t # <<>> /\ Head(t) \in {"-", "+"} THEN Tail(t) ELSE t
    IN  IF u = <<>> \/ ~IsDigit(Head(u)) THEN NaN
        ELSE Num((IF neg THEN -1 ELSE 1) * DigitPrefix(u, 0))

\* s.split("/")
RECURSIVE SplitAcc(_, _, _)
SplitAcc(s, cur, acc) ==
    IF s = <<>> THEN Append(acc, cur)
    ELSE IF Head(s) = "/" THEN SplitAcc(Tail(s), <<>>, Append(acc, cur))
    ELSE SplitAcc(Tail(s), Append(cur, Head(s)), acc)
SplitSlash(s) == SplitAcc(s, <<>>, <<>>)

\* ------------------------------------------------------------------------
\* Size probe: fileSize from the probe response (part_000:162-176)
\* ------------------------------------------------------------------------
\* probe = [ok, contentRange]; contentRange is Null or a string
ProbeFileSize(probe) ==
    IF ~probe.ok THEN Num(0)
    ELSE IF Falsy(probe.contentRange) THEN Num(0)
    ELSE LET parts == SplitSlash(probe.contentRange.s)
         IN  IF Len(parts) = 2 THEN parseInt(parts[2]) ELSE Num(0)

\* ------------------------------------------------------------------------
\* Strategy selection: the if-chain of the handler (part_000:181-254)
\* ------------------------------------------------------------------------
OverrideOk(o) == (~o.nan) /\ o.v > 0

\* chunk size of the medium branch before the override (part_000:222-223)
MediumChunkSizeAtLimit(fileSize) ==
    IF (~fileSize.nan) /\ fileSize.v >= MEDIUM_SPLIT_LIMIT
    THEN MEDIUM_SMALL_CHUNK ELSE DEFAULT_CHUNK_SIZE
MediumChunkSize(fileSize) ==
    IF NumGt(fileSize, MEDIUM_SPLIT_LIMIT) THEN MEDIUM_SMALL_CHUNK ELSE DEFAULT_CHUNK_SIZE

selectStrategy(fileSize, chunkOverride, parallelOverride) ==
    IF NumGt(fileSize, 0) /\ NumLe(fileSize, SMALL_FILE_LIMIT)
    THEN [kind |-> "SingleShot", chunkSize |-> 0, maxParallel |-> 0]
    ELSE IF NumEq(fileSize, 0)
    THEN [kind |-> "UnknownSizeFallback", chunkSize |-> 0, maxParallel |-> 0]
    ELSE IF NumGt(fileSize, 0) /\ NumLe(fileSize, MEDIUM_FILE_LIMIT)
    THEN [kind |-> "MediumParallel",
          chunkSize |-> IF OverrideOk(chunkOverride) THEN chunkOverride.v
                        ELSE MediumChunkSize(fileSize),
          maxParallel |-> IF OverrideOk(parallelOverride) THEN parallelOverride.v
                          ELSE DEFAULT_PARALLEL]
    ELSE [kind |-> "SafeParallel",
          chunkSize |-> IF OverrideOk(chunkOverride) THEN chunkOverride.v
                        ELSE SAFE_CHUNK_SIZE,
          maxParallel |-> IF OverrideOk(parallelOverride) THEN parallelOverride.v
                          ELSE SAFE_PARALLEL]

Chunked(st) == st.kind \in {"MediumParallel", "SafeParallel"}

\* ------------------------------------------------------------------------
\* One pass of the inner for loop (part_000:229-234 and 245-250): the tasks
\* of the next batch, starting at offset.
\* ------------------------------------------------------------------------
ChunkEndNoClamp(offset, chunkSize, fileSize) == offset + chunkSize - 1
ChunkEnd(offset, chunkSize, fileSize) == Min(offset + chunkSize - 1, fileSize.v - 1)

RECURSIVE BatchFromDoubleStride(_, _, _, _, _)
BatchFromDoubleStride(i, offset, fileSize, chunkSize, maxParallel) ==
    IF i < maxParallel /\ NumGt(fileSize, offset)
    THEN <<[offset |-> offset, end |-> ChunkEnd(offset, chunkSize, fileSize)]>>
         \o BatchFromDoubleStride(i + 1, offset + 2 * chunkSize, fileSize, chunkSize,
                                  maxParallel)
    ELSE <<>>
RECURSIVE BatchFrom(_, _, _, _, _)
BatchFrom(i, offset, fileSize, chunkSize, maxParallel) ==
    IF i < maxParallel /\ NumGt(fileSize, offset)
    THEN <<[offset |-> offset, end |-> ChunkEnd(offset, chunkSize, fileSize)]>>
         \o BatchFrom(i + 1, offset + chunkSize, fileSize, chunkSize, maxParallel)
    ELSE <<>>
NextBatchOverLimit(offset, fileSize, st) ==
    BatchFrom(0, offset, fileSize, st.chunkSize, st.maxParallel + 1)
NextBatch(offset, fileSize, st) == BatchFrom(0, offset, fileSize, st.chunkSize, st.maxParallel)

\* ------------------------------------------------------------------------
\* Text helpers of normalizeText and of the final text (part_000:50-52, 105)
\* ------------------------------------------------------------------------
UpperChars == <<"A", "B", "C", "D", "E", "F", "G", "H", "I", "J", "K", "L", "M",
                "N", "O", "P", "Q", "R", "S", "T", "U", "V", "W", "X", "Y", "Z">>
LowerChars == <<"a", "b", "c", "d", "e", "f", "g", "h", "i", "j", "k", "l", "m",
                "n", "o", "p", "q", "r", "s", "t", "u", "v", "w", "x", "y", "z">>
LowerChar(c) == IF \E i \in 1..26 : UpperChars[i] = c
                THEN LowerChars[CHOOSE i \in 1..26 : UpperChars[i] = c]
                ELSE c
toLowerCase(s) == [i \in 1..Len(s) |-> LowerChar(s[i])]

IsWs(c) == c \in {" ", "\t", "\n"}
IsPunct(c) == c \in {".", ",", "!", "?"}

RECURSIVE SkipWs(_)
SkipWs(s) == IF s # <<>> /\ IsWs(Head(s)) THEN SkipWs(Tail(s)) ELSE s

\* replace(/\s+/g, " ")
RECURSIVE CollapseWs(_)
CollapseWs(s) ==
    IF s = <<>> THEN <<>>
    ELSE IF IsWs(Head(s))
         THEN <<" ">> \o CollapseWs(SkipWs(Tail(s)))
         ELSE <<Head(s)>> \o CollapseWs(Tail(s))

\* replace(/[.,!?]/g, "")
StripPunct(s) == SelectSeq(s, LAMBDA c : ~IsPunct(c))

RECURSIVE TrimEnd(_)
TrimEnd(s) == IF s # <<>> /\ IsWs(s[Len(s)]) THEN TrimEnd(SubSeq(s, 1, Len(s) - 1)) ELSE s
Trim(s) == TrimEnd(SkipWs(s))

normalizeText(t) == Trim(StripPunct(CollapseWs(toLowerCase(t))))

\* ------------------------------------------------------------------------
\* mergeResults (part_000:54-107)
\* chunk = [offset, chunkSize, result], result = [segments, words, duration]
\* segment = [start, end, text, words], word = [word, start, end]
\* ------------------------------------------------------------------------
\* (offset / chunkSize) * chunkDuration || (lastSegment ? lastSegment.end : 0)
\* 0 / 0 is NaN and x * 0 is 0 or NaN: both fall through the ||.  The
\* quotient is exact when chunkSize divides offset * chunkDuration and is
\* truncated to the millisecond otherwise.
TimeOffsetNoFallback(chunk, globalSegments) ==
    IF chunk.chunkSize = 0 THEN 0
    ELSE (chunk.offset * chunk.result.duration) \div chunk.chunkSize
TimeOffset(chunk, globalSegments) ==
    LET offset == chunk.offset
        chunkSize == chunk.chunkSize
        chunkDuration == chunk.result.duration
        fallback == IF Len(globalSegments) > 0
                    THEN globalSegments[Len(globalSegments)].end ELSE 0
    IN  IF chunkSize = 0 \/ offset = 0 \/ chunkDuration = 0 THEN fallback
        ELSE (offset \div chunkSize) * chunkDuration
             + ((offset % chunkSize) * chunkDuration) \div chunkSize

ShiftWord(w, t) == [word |-> w.word, start |-> w.start + t, end |-> w.end + t]
ShiftSegment(s, t) ==
    [start |-> s.start + t, end |-> s.end + t, text |-> s.text,
     words |-> [i \in 1..Len(s.words) |-> ShiftWord(s.words[i], t)]]

\* the for loop over chunks: returns [segs, words], the global lists
RECURSIVE PlaceChunks(_, _, _)
PlaceChunks(chunks, globalSegments, globalWords) ==
    IF chunks = <<>> THEN [segs |-> globalSegments, words |-> globalWords]
    ELSE LET c == Head(chunks)
             t == TimeOffset(c, globalSegments)
             segs == c.result.segments
             wrds == c.result.words
         IN  PlaceChunks(Tail(chunks),
                 globalSegments \o [i \in 1..Len(segs) |-> ShiftSegment(segs[i], t)],
                 globalWords \o [i \in 1..Len(wrds) |-> ShiftWord(wrds[i], t)])

\* Array.prototype.sort((a, b) => a.start - b.start): stable
RECURSIVE InsertByStart(_, _)
InsertByStart(sorted, x) ==
    IF sorted = <<>> THEN <<x>>
    ELSE IF sorted[Len(sorted)].start <= x.start THEN Append(sorted, x)
    ELSE Append(InsertByStart(SubSeq(sorted, 1, Len(sorted) - 1), x), sorted[Len(sorted)])
RECURSIVE SortByStartFrom(_, _)
SortByStartFrom(xs, acc) ==
    IF xs = <<>> THEN acc ELSE SortByStartFrom(Tail(xs), InsertByStart(acc, Head(xs)))
SortByStart(xs) == SortByStartFrom(xs, <<>>)

\* the test of the dedup loop (part_000:94-97)
IsDuplicateTextOnly(prev, s) == normalizeText(prev.text) = normalizeText(s.text)
IsDuplicate(prev, s) ==
    LET overlap == Max(0, Min(prev.end, s.end) - Max(prev.start, s.start))
        span == Max(Max(prev.end - prev.start, s.end - s.start), EPSILON)
        similar == normalizeText(prev.text) = normalizeText(s.text)
    IN  2 * overlap > span /\ similar

\* the dedup loop (part_000:90-103)
RECURSIVE DedupKeepFirst(_, _)
DedupKeepFirst(sorted, dedupSegments) ==
    IF sorted = <<>> THEN dedupSegments
    ELSE LET s == Head(sorted)
             n == Len(dedupSegments)
         IN  IF n > 0 /\ IsDuplicate(dedupSegments[n], s)
             THEN DedupKeepFirst(Tail(sorted), dedupSegments)
             ELSE DedupKeepFirst(Tail(sorted), Append(dedupSegments, s))
RECURSIVE Dedup(_, _)
Dedup(sorted, dedupSegments) ==
    IF sorted = <<>> THEN dedupSegments
    ELSE LET s == Head(sorted)
             n == Len(dedupSegments)
         IN  IF n > 0 /\ IsDuplicate(dedupSegments[n], s)
             THEN Dedup(Tail(sorted), [dedupSegments EXCEPT ![n] = s])
             ELSE Dedup(Tail(sorted), Append(dedupSegments, s))

\* dedupSegments.map(s => s.text.trim()).join(" ")
RECURSIVE JoinTrimmed(_)
JoinTrimmed(segs) ==
    IF segs = <<>> THEN <<>>
    ELSE IF Len(segs) = 1 THEN Trim(segs[1].text)
    ELSE Trim(segs[1].text) \o <<" ">> \o JoinTrimmed(Tail(segs))

mergeResults(chunks) ==
    LET placed == PlaceChunks(chunks, <<>>, <<>>)
        dedupSegments == Dedup(SortByStart(placed.segs), <<>>)
    IN  [text |-> Trim(CollapseWs(JoinTrimmed(dedupSegments))),
         segments |-> dedupSegments,
         words |-> SortByStart(placed.words)]

\* ------------------------------------------------------------------------
\* resolveUrl's extension test (part_000:32) and the content-type test of
\* the whole-file branches (part_000:192, 212)
\* ------------------------------------------------------------------------
MediaExts == { <<"m", "p", "4">>, <<"m", "p", "3">>, <<"m", "4", "a">>, <<"w", "a", "v">>,
               <<"f", "l", "a", "c">>, <<"o", "g", "g">>, <<"w", "e", "b", "m">> }
EndsWith(s, suffix) ==
    Len(s) >= Len(suffix) /\ SubSeq(s, Len(s) - Len(suffix) + 1, Len(s)) = suffix
Contains(s, pat) ==
    \E i \in 1..(Len(s) - Len(pat) + 1) : SubSeq(s, i, i + Len(pat) - 1) = pat
\* /\.(mp4|mp3|m4a|wav|flac|ogg|webm)$/i.test(inputUrl)
HasMediaExtCaseSensitive(s) == \E ext \in MediaExts : EndsWith(s, <<".">> \o ext)
HasMediaExt(s) == \E ext \in MediaExts : EndsWith(toLowerCase(s), <<".">> \o ext)
\* /audio|video/.test(contentType)
IsAudioVideo(contentType) ==
    \/ Contains(contentType, <<"a", "u", "d", "i", "o">>)
    \/ Contains(contentType, <<"v", "i", "d", "e", "o">>)

\* ------------------------------------------------------------------------
\* Payloads and the guard of processChunk (part_000:127-137)
\* A payload is its byte length and at most one text signature placed at
\* byte position sigPos; the guard decodes the first HEAD_BYTES bytes and
\* searches them for one of three signatures.
\* ------------------------------------------------------------------------
SIG_DOCTYPE == "<!DOCTYPE"
SIG_HTML == "<html"
SIG_ERROR == "{\"error"
GuardSignatures == {SIG_DOCTYPE, SIG_HTML, SIG_ERROR}
\* byte lengths of '<!DOCTYPE', '<html' and '{"error'
SigLen(sig) == CASE sig = SIG_DOCTYPE -> 9
                 [] sig = SIG_HTML -> 5
                 [] sig = SIG_ERROR -> 7
                 [] OTHER -> 0
HeadHasSignature(p) ==
    /\ p.sig \in GuardSignatures
    /\ p.sigPos + SigLen(p.sig) <= Min(HEAD_BYTES, p.len)
RejectPayloadEmptyOnly(p) == p.len = 0
RejectPayload(p) == p.len = 0 \/ HeadHasSignature(p)

\* ------------------------------------------------------------------------
\* The transcription engine (env.AI.run): a function of the bytes it is
\* given, which may also throw.
\* ------------------------------------------------------------------------
ENGINE_DURATION == 10
Whisper(p) ==
    IF p.len = 0 THEN [segments |-> <<>>, words |-> <<>>, duration |-> 0]
    ELSE LET txt == IF p.sig = "none" THEN <<"a">> ELSE <<"e">>
         IN  [segments |-> <<[start |-> 0, end |-> ENGINE_DURATION, text |-> txt,
                              words |-> <<>>]>>,
              words |-> <<[word |-> txt, start |-> 0, end |-> ENGINE_DURATION]>>,
              duration |-> ENGINE_DURATION]

\* ------------------------------------------------------------------------
\* State
\* ------------------------------------------------------------------------
VARIABLES
    planPc,        \* "start" | "loop" | "done": position in the partition loop
    planSize,      \* total size reported by the probe
    planChunk,     \* raw ?chunk= parameter
    planParallel,  \* raw ?parallel= parameter
    planSt,        \* selected strategy
    planOffset,    \* the handler's running offset
    planBatches    \* batches dispatched so far, each a sequence of tasks

VARIABLES
    mergePc,       \* "start" | "done"
    mergeIn,       \* the chunk list handed to mergeResults
    mergeOut       \* its return value

VARIABLES
    pc,            \* handler position: "start" | "resolving" | "probing" | "whole"
                   \*   | "wholeAi" | "batch" | "responded"
    inputUrl,      \* ?url= parameter (null or a string)
    chunkParam,    \* ?chunk= parameter
    parallelParam, \* ?parallel= parameter
    originSize,    \* size of the resource at the origin
    probeResp,     \* the probe response, status 0 while there is none
    url,           \* the handler's url: 0 is inputUrl itself, k the k-th resolver answer
    fileSize,      \* the handler's fileSize
    st,            \* branch taken, with its chunkSize and MAX_PARALLEL
    offset,        \* the handler's offset
    allChunks,     \* the handler's allChunks
    tasks,         \* the processChunk calls of the current batch
    whole,         \* the whole-file response being transcribed
    batchNo,       \* number of batches dispatched
    response,      \* the Response returned, status 0 while there is none
    resolverCalls, \* requests sent to the resolver service
    fetchLog,      \* requests sent to the origin: [kind, url, batch]
    engineLog      \* calls of env.AI.run: [src, offset, payload, status, contentType]

inVars == <<inputUrl, chunkParam, parallelParam, originSize>>
jobVars == <<pc, inVars, probeResp, url, fileSize, st, offset, allChunks, tasks, whole, batchNo,
             response, resolverCalls, fetchLog, engineLog>>
planVars == <<planPc, planSize, planChunk, planParallel, planSt, planOffset, planBatches>>
mergeVars == <<mergePc, mergeIn, mergeOut>>

VARIABLES
    cPc,           \* run(): "loop" | "origin" | "ai" | "printed" | "failed"
    cSize,         \* size of the resource at the origin
    cOffset,       \* run()'s offset
    cChunks,       \* run()'s allChunks: [offset, result], result undefined or a value
    cRequests,     \* offsets requested from the worker so far
    wOffset,       \* the worker's offset (NaN-able) for the current request
    wBuffer,       \* byteLength of the worker's buffer for the current request
    workerLog,     \* 200 responses of the worker: [offset, bytes, done]
    cEngine,       \* byte ranges the worker handed to env.AI.run: [from, len]
    cOut           \* what run() ended with: [status, workerStatus, text]
clientVars == <<cPc, cSize, cOffset, cChunks, cRequests, wOffset, wBuffer, workerLog, cEngine,
                cOut>>
vars == <<jobVars, planVars, mergeVars, clientVars>>

NoStrategy == [kind |-> "none", chunkSize |-> 0, maxParallel |-> 0]

\* ------------------------------------------------------------------------
\* The fetch handler (part_000:148-277) and processChunk (part_000:109-146)
\* ------------------------------------------------------------------------
EmptyPayload == [len |-> 0, sig |-> "none", sigPos |-> 0]
AudioPayload(n) == [len |-> n, sig |-> "none", sigPos |-> 0]
\* bodies of an error page
PAGE_BYTES == 300
\* a signature ending exactly at byte HEAD_BYTES, and one straddling it
SigInsideAt == HEAD_BYTES - 9
SigStraddleAt == HEAD_BYTES - 4
PagePayloads ==
    { [len |-> PAGE_BYTES, sig |-> SIG_HTML, sigPos |-> 0],
      [len |-> PAGE_BYTES, sig |-> SIG_DOCTYPE, sigPos |-> SigInsideAt],
      [len |-> PAGE_BYTES, sig |-> SIG_ERROR, sigPos |-> SigStraddleAt] }
BodiesFor(n) == {AudioPayload(n), EmptyPayload} \cup PagePayloads

\* status 0 stands for a fetch that rejects (network error)
NoProbe == [status |-> 0, contentRange |-> Null]
FetchStatuses == {0, 200, 206, 401, 403, 404, 500}
StatusOk(status) == status >= 200 /\ status <= 299

BytesPrefix == <<"b", "y", "t", "e", "s", " ", "0", "-", "0">>
ProbeResponses ==
    { [status |-> 206, contentRange |-> Str(BytesPrefix \o <<"/">> \o Numeral(originSize))],
      [status |-> 206, contentRange |-> Str(BytesPrefix \o <<"/", "*">>)],
      [status |-> 206, contentRange |-> Str(BytesPrefix)],
      [status |-> 200, contentRange |-> Null],
      [status |-> 404, contentRange |-> Null],
      [status |-> 416, contentRange |-> Str(<<"b", "y", "t", "e", "s", " ", "*", "/">>
                                            \o Numeral(originSize))],
      [status |-> 0, contentRange |-> Null] }

ContentTypes ==
    { Null,
      Str(<<"a", "u", "d", "i", "o", "/", "m", "p", "e", "g">>),
      Str(<<"v", "i", "d", "e", "o", "/", "m", "p", "4">>),
      Str(<<"t", "e", "x", "t", "/", "h", "t", "m", "l">>) }
WholeStatuses == {200, 403, 404}

NoMeta == [processedDuration |-> 0, segmentCount |-> 0, bytesProcessed |-> 0,
           fileSize |-> NaN, isComplete |-> "null", parallelism |-> NaN, chunkSize |-> NaN]
NoResponse == [status |-> 0, isError |-> FALSE, text |-> <<>>, segments |-> <<>>,
               meta |-> NoMeta]
\* json({ error: ... }, status)
ErrorResponse(status) == [status |-> status, isError |-> TRUE, text |-> <<>>,
                          segments |-> <<>>, meta |-> NoMeta]
NoWhole == [status |-> 0, contentType |-> Null, payload |-> EmptyPayload]

chunkOverride == parseInt(OrEmpty(chunkParam))
parallelOverride == parseInt(OrEmpty(parallelParam))

\* x || y on numbers
OrElse(x, y) == IF Truthy(x) THEN x ELSE y

\* part_000:256-271; a null field is NaN here
SuccessResponse(chunks, off, fsz) ==
    LET merged == mergeResults(chunks)
        n == Len(merged.segments)
    IN  [status |-> 200, isError |-> FALSE, text |-> merged.text,
         segments |-> merged.segments,
         meta |-> [processedDuration |-> IF n > 0 THEN merged.segments[n].end ELSE 0,
                   segmentCount |-> n,
                   bytesProcessed |-> off,
                   fileSize |-> IF Truthy(fsz) THEN fsz ELSE NaN,
                   isComplete |-> IF Truthy(fsz)
                                  THEN (IF off >= fsz.v THEN "true" ELSE "false")
                                  ELSE "null",
                   parallelism |-> OrElse(parallelOverride,
                                     Num(IF NumGt(fsz, MEDIUM_FILE_LIMIT)
                                         THEN SAFE_PARALLEL ELSE DEFAULT_PARALLEL)),
                   chunkSize |-> OrElse(chunkOverride,
                                     Num(IF NumGt(fsz, MEDIUM_FILE_LIMIT)
                                         THEN SAFE_CHUNK_SIZE ELSE DEFAULT_CHUNK_SIZE))]]

\* a processChunk call that has sent its first range request
NewTask(t, u) == [offset |-> t.offset, end |-> t.end, pc |-> "fetch1", url |-> u,
                  fetches |-> 1, resolves |-> 0, expired |-> FALSE, status |-> 0,
                  err |-> "",
                  payload |-> EmptyPayload,
                  result |-> [segments |-> <<>>, words |-> <<>>, duration |-> 0]]
\* what processChunk returns (part_000:145)
ChunkResult(t) == [offset |-> t.offset, result |-> t.result, chunkSize |-> t.payload.len]
InFlight(t) == t.pc \in {"fetch1", "resolving", "fetch2", "ai"}

JobInputUrls == { Null, Str(<<"v", ".", "M", "P", "3">>), Str(<<"p", "g">>) }
N8000000 == Str(Numeral(8000000))
N30000000 == Str(Numeral(30000000))
JobConfigs ==
    { [size |-> 5000000, chunk |-> Null, parallel |-> Null],
      [size |-> 5000000, chunk |-> N8000000, parallel |-> Str(<<"2">>)],
      [size |-> 21000000, chunk |-> Null, parallel |-> Null],
      [size |-> 21000000, chunk |-> N8000000, parallel |-> Str(<<"2">>)],
      [size |-> 21000000, chunk |-> Str(<<"a", "b", "c">>), parallel |-> Str(<<"1">>)],
      [size |-> 21000000, chunk |-> Str(<<"-", "5">>), parallel |-> Str(<<"1">>)],
      [size |-> 21000000, chunk |-> Str(<<"0">>), parallel |-> Str(<<"1">>)],
      [size |-> 21000000, chunk |-> Str(Numeral(9000000) \o <<"x">>), parallel |-> Str(<<"1">>)],
      [size |-> 21000000, chunk |-> N30000000, parallel |-> Str(<<"0">>)],
      [size |-> 21000000, chunk |-> N30000000, parallel |-> Str(<<"-", "2">>)],
      [size |-> 21000000, chunk |-> N30000000, parallel |-> Str(<<"x">>)],
      [size |-> 60000000, chunk |-> N30000000, parallel |-> Null],
      [size |-> 60000000, chunk |-> N30000000, parallel |-> Str(<<"1">>)] }

JobStart ==
    /\ pc = "start"
    /\ inputUrl \in JobInputUrls
    /\ \E c \in JobConfigs :
          /\ originSize = c.size
          /\ chunkParam = c.chunk
          /\ parallelParam = c.parallel
    /\ probeResp = NoProbe
    /\ url = 0
    /\ fileSize = Num(0)
    /\ st = NoStrategy
    /\ offset = 0
    /\ allChunks = <<>>
    /\ tasks = <<>>
    /\ whole = NoWhole
    /\ batchNo = 0
    /\ response = NoResponse
    /\ resolverCalls = 0
    /\ fetchLog = {}
    /\ engineLog = {}

JobIdle ==
    /\ pc = "idle"
    /\ inputUrl = Null
    /\ originSize = 0
    /\ chunkParam = Null
    /\ parallelParam = Null
    /\ probeResp = NoProbe
    /\ url = 0
    /\ fileSize = Num(0)
    /\ st = NoStrategy
    /\ offset = 0
    /\ allChunks = <<>>
    /\ tasks = <<>>
    /\ whole = NoWhole
    /\ batchNo = 0
    /\ response = NoResponse
    /\ resolverCalls = 0
    /\ fetchLog = {}
    /\ engineLog = {}

\* the catch block of the handler (part_000:272-275)
HandlerThrows ==
    /\ pc' = "responded"
    /\ response' = ErrorResponse(500)

\* the probe request is sent with url u (part_000:163)
SendProbe(u) ==
    /\ url' = u
    /\ pc' = "probing"
    /\ fetchLog' = fetchLog \cup {[kind |-> "probe", url |-> u, batch |-> 0, offset |-> 0]}
    /\ UNCHANGED response

\* handler entry up to its first request (part_000:151-158, resolveUrl 31-37)
Request ==
    /\ pc = "start"
    /\ IF Falsy(inputUrl)
       THEN /\ pc' = "responded"
            /\ response' = ErrorResponse(400)
            /\ UNCHANGED <<url, fetchLog, resolverCalls>>
       ELSE IF HasMediaExt(inputUrl.s)
       THEN SendProbe(0) /\ UNCHANGED resolverCalls
       ELSE /\ pc' = "resolving"
            /\ resolverCalls' = resolverCalls + 1
            /\ UNCHANGED <<url, fetchLog, response>>
    /\ UNCHANGED <<inVars, probeResp, fileSize, st, offset, allChunks, tasks, whole, batchNo,
                   engineLog>>
    /\ UNCHANGED <<planVars, mergeVars, clientVars>>

\* the resolver answers the up-front resolveUrl (part_000:38-44, 158-163)
ResolverOutcomes == {"ok", "notOk", "noUrl", "rejected"}
ResolveResp ==
    /\ pc = "resolving"
    /\ \E outcome \in ResolverOutcomes :
          IF outcome = "ok"
          THEN SendProbe(resolverCalls)
          ELSE HandlerThrows /\ UNCHANGED <<url, fetchLog>>
    /\ UNCHANGED <<inVars, probeResp, fileSize, st, offset, allChunks, tasks, whole, batchNo,
                   resolverCalls, engineLog>>
    /\ UNCHANGED <<planVars, mergeVars, clientVars>>

\* the head of while (offset < fileSize) reached with these values: either
\* the for loop starts the next batch (part_000:228-235, 244-251) or the
\* handler merges and responds (part_000:256-271)
LoopHead(chunks, off, fsz, strategy, ts, log) ==
    /\ allChunks' = chunks
    /\ IF NumGt(fsz, off)
       THEN LET b == NextBatch(off, fsz, strategy)
            IN  /\ tasks' = [i \in 1..Len(b) |-> NewTask(b[i], url)]
                /\ offset' = off + Len(b) * strategy.chunkSize
                /\ pc' = "batch"
                /\ batchNo' = batchNo + 1
                /\ fetchLog' = log \cup {[kind |-> "range", url |-> url, batch |-> batchNo + 1,
                                           offset |-> b[i].offset] : i \in 1..Len(b)}
                /\ UNCHANGED response
       ELSE /\ offset' = off
            /\ pc' = "responded"
            /\ response' = SuccessResponse(chunks, off, fsz)
            /\ fetchLog' = log
            /\ tasks' = ts
            /\ UNCHANGED batchNo

\* the probe is answered: fileSize, the branch, and the first request of the
\* branch (part_000:162-182, 200-202, 221-232, 238-248)
ProbeResp ==
    /\ pc = "probing"
    /\ \E probe \in ProbeResponses :
          /\ probeResp' = probe
          /\ IF probe.status = 0
             THEN /\ HandlerThrows
                  /\ UNCHANGED <<fileSize, st, offset, allChunks, tasks, batchNo, fetchLog>>
             ELSE LET fsz == ProbeFileSize([ok |-> StatusOk(probe.status),
                                            contentRange |-> probe.contentRange])
                      strategy == selectStrategy(fsz, chunkOverride, parallelOverride)
                  IN  /\ fileSize' = fsz
                      /\ st' = strategy
                      /\ IF Chunked(strategy)
                         THEN LoopHead(<<>>, 0, fsz, strategy, tasks, fetchLog)
                         ELSE /\ pc' = "whole"
                              /\ fetchLog' = fetchLog \cup {[kind |-> "whole", url |-> url, batch |-> 0, offset |-> 0]}
                              /\ UNCHANGED <<offset, allChunks, tasks, batchNo, response>>
    /\ UNCHANGED <<inVars, url, whole, resolverCalls, engineLog>>
    /\ UNCHANGED <<planVars, mergeVars, clientVars>>

\* the whole-file response arrives (part_000:182-197 and 202-217)
WholeResp ==
    /\ pc = "whole"
    /\ \E status \in WholeStatuses \cup {0}, ct \in ContentTypes, body \in BodiesFor(originSize) :
          IF status = 0 \/ ~IsAudioVideo(OrEmpty(ct))
          THEN HandlerThrows /\ UNCHANGED <<whole, engineLog>>
          ELSE /\ whole' = [status |-> status, contentType |-> ct, payload |-> body]
               /\ engineLog' = engineLog \cup {[src |-> "whole", offset |-> 0, payload |-> body,
                                                status |-> status, contentType |-> ct]}
               /\ pc' = "wholeAi"
               /\ UNCHANGED response
    /\ UNCHANGED <<inVars, probeResp, url, fileSize, st, offset, allChunks, tasks, batchNo,
                   resolverCalls, fetchLog>>
    /\ UNCHANGED <<planVars, mergeVars, clientVars>>

\* the engine answers the whole-file call (part_000:197-199 and 217-220)
WholeAiResp ==
    /\ pc = "wholeAi"
    /\ \E ok \in BOOLEAN :
          IF ok
          THEN LET n == whole.payload.len
                   fsz == IF st.kind = "UnknownSizeFallback" THEN Num(n) ELSE fileSize
                   chunks == Append(allChunks, [offset |-> 0, result |-> Whisper(whole.payload),
                                                chunkSize |-> n])
               IN  /\ allChunks' = chunks
                   /\ offset' = n
                   /\ fileSize' = fsz
                   /\ pc' = "responded"
                   /\ response' = SuccessResponse(chunks, n, fsz)
          ELSE HandlerThrows /\ UNCHANGED <<allChunks, offset, fileSize>>
    /\ UNCHANGED <<inVars, probeResp, url, st, tasks, whole, batchNo, resolverCalls, fetchLog,
                   engineLog>>
    /\ UNCHANGED <<planVars, mergeVars, clientVars>>

\* Promise.all over the batch, seen from the handler after the tasks became
\* ts (part_000:235-236, 251-252): it rejects as soon as one task has thrown
\* and resolves when all have returned; until then the handler stays
\* suspended, and after its response nothing is left to resume
AfterTaskStepAllSettled(ts, log) ==
    IF pc = "batch" /\ \A i \in 1..Len(ts) : ts[i].pc \in {"done", "failed"}
    THEN LoopHead(allChunks \o [i \in 1..Len(ts) |-> ChunkResult(ts[i])],
                  offset, fileSize, st, ts, log)
    ELSE /\ tasks' = ts
         /\ fetchLog' = log
         /\ UNCHANGED <<pc, response, allChunks, offset, batchNo>>
AfterTaskStep(ts, log) ==
    IF pc = "batch" /\ \E i \in 1..Len(ts) : ts[i].pc = "failed"
    THEN /\ tasks' = ts
         /\ HandlerThrows
         /\ fetchLog' = log
         /\ UNCHANGED <<allChunks, offset, batchNo>>
    ELSE IF pc = "batch" /\ \A i \in 1..Len(ts) : ts[i].pc = "done"
    THEN LoopHead(allChunks \o [i \in 1..Len(ts) |-> ChunkResult(ts[i])],
                  offset, fileSize, st, ts, log)
    ELSE /\ tasks' = ts
         /\ fetchLog' = log
         /\ UNCHANGED <<pc, response, allChunks, offset, batchNo>>

RangeLen(t) == t.end - t.offset + 1

\* if (resp.status === 403 || resp.status === 401), which is reached once,
\* after the first request (part_000:118)
ShouldRetryEveryTime(t, status) == status \in {401, 403}
ShouldRetry(t, status) == t.pc = "fetch1" /\ status \in {401, 403}

\* if (resp.status !== 206 && resp.status !== 200) throw (part_000:123)
OriginStatusOkOrMissing(status) == status \in {200, 206, 404}
OriginStatusOk(status) == status \in {200, 206}

\* a range response arrives in processChunk (part_000:116-143)
TaskFetchResp(i) ==
    /\ i \in 1..Len(tasks)
    /\ tasks[i].pc \in {"fetch1", "fetch2"}
    /\ \E status \in FetchStatuses :
       \E body \in IF status \in {200, 206} THEN BodiesFor(RangeLen(tasks[i])) ELSE PagePayloads :
          LET t == tasks[i]
          IN  IF ShouldRetry(t, status)
              THEN \* url = await resolveUrl(inputUrl, env), then the retry
                   IF HasMediaExt(inputUrl.s)
                   THEN /\ AfterTaskStep([tasks EXCEPT ![i] =
                                [t EXCEPT !.pc = "fetch2", !.resolves = t.resolves + 1,
                                          !.fetches = t.fetches + 1, !.url = 0,
                                          !.expired = TRUE]],
                              fetchLog \cup {[kind |-> "range", url |-> 0, batch |-> batchNo,
                                             offset |-> t.offset]})
                        /\ UNCHANGED <<resolverCalls, engineLog>>
                   ELSE /\ AfterTaskStep([tasks EXCEPT ![i] =
                                [t EXCEPT !.pc = "resolving", !.resolves = t.resolves + 1,
                                          !.expired = TRUE]],
                              fetchLog)
                        /\ resolverCalls' = resolverCalls + 1
                        /\ UNCHANGED engineLog
              ELSE IF ~OriginStatusOk(status) \/ RejectPayload(body)
              THEN /\ AfterTaskStep([tasks EXCEPT ![i] =
                           [t EXCEPT !.pc = "failed", !.status = status,
                                     !.err = IF OriginStatusOk(status) THEN "validation"
                                             ELSE "fetch"]], fetchLog)
                   /\ UNCHANGED <<resolverCalls, engineLog>>
              ELSE /\ AfterTaskStep([tasks EXCEPT ![i] =
                           [t EXCEPT !.pc = "ai", !.status = status, !.payload = body]],
                         fetchLog)
                   /\ engineLog' = engineLog \cup
                          {[src |-> "range", offset |-> t.offset, payload |-> body,
                            status |-> status, contentType |-> Null]}
                   /\ UNCHANGED resolverCalls
    /\ UNCHANGED <<inVars, probeResp, url, fileSize, st, whole>>
    /\ UNCHANGED <<planVars, mergeVars, clientVars>>

\* the resolver answers the resolveUrl of a task (part_000:38-44, 119-120)
TaskResolveResp(i) ==
    /\ i \in 1..Len(tasks)
    /\ tasks[i].pc = "resolving"
    /\ \E outcome \in ResolverOutcomes :
          LET t == tasks[i]
          IN  IF outcome = "ok"
              THEN AfterTaskStep([tasks EXCEPT ![i] =
                        [t EXCEPT !.pc = "fetch2", !.fetches = t.fetches + 1,
                                  !.url = resolverCalls]],
                      fetchLog \cup {[kind |-> "range", url |-> resolverCalls, batch |-> batchNo,
                                     offset |-> t.offset]})
              ELSE AfterTaskStep([tasks EXCEPT ![i] =
                        [t EXCEPT !.pc = "failed", !.err = "resolve"]], fetchLog)
    /\ UNCHANGED <<inVars, probeResp, url, fileSize, st, whole, resolverCalls, engineLog>>
    /\ UNCHANGED <<planVars, mergeVars, clientVars>>

\* the engine answers the call of a task (part_000:141-145)
TaskAiResp(i) ==
    /\ i \in 1..Len(tasks)
    /\ tasks[i].pc = "ai"
    /\ \E ok \in BOOLEAN :
          LET t == tasks[i]
          IN  IF ok
              THEN AfterTaskStep([tasks EXCEPT ![i] =
                        [t EXCEPT !.pc = "done", !.result = Whisper(t.payload)]], fetchLog)
              ELSE AfterTaskStep([tasks EXCEPT ![i] =
                        [t EXCEPT !.pc = "failed", !.err = "engine"]], fetchLog)
    /\ UNCHANGED <<inVars, probeResp, url, fileSize, st, whole, resolverCalls, engineLog>>
    /\ UNCHANGED <<planVars, mergeVars, clientVars>>

JobNext ==
    \/ Request
    \/ ResolveResp
    \/ ProbeResp
    \/ WholeResp
    \/ WholeAiResp
    \/ \E i \in 1..Len(tasks) : TaskFetchResp(i)
    \/ \E i \in 1..Len(tasks) : TaskResolveResp(i)
    \/ \E i \in 1..Len(tasks) : TaskAiResp(i)

\* ------------------------------------------------------------------------
\* Partition plan: strategy selection followed by the while loop of the
\* chunked branches with every batch succeeding (part_000:221-254)
\* ------------------------------------------------------------------------
PlanSizes == {0, 1, 10000000, 20971520, 20971521, 21000000, 30000000, 41943040,
              41943041, 45000000, 52428800, 52428801, 100000000}
PlanChunkParams == {Null, Str(<<"a", "b", "c">>), Str(<<"0">>), Str(<<"-", "5">>),
                    Str(Numeral(8000000)), Str(Numeral(3000000)),
                    Str(Numeral(60000000))}
PlanParallelParams == {Null, Str(<<"x">>), Str(<<"0">>), Str(<<"-", "2">>),
                       Str(<<"1">>), Str(<<"4">>)}

PlanStart ==
    /\ planPc = "start"
    /\ planSize \in PlanSizes
    /\ planChunk \in PlanChunkParams
    /\ planParallel \in PlanParallelParams
    /\ planSt = NoStrategy
    /\ planOffset = 0
    /\ planBatches = <<>>

PlanSelect ==
    /\ planPc = "start"
    /\ planSt' = selectStrategy(Num(planSize), parseInt(OrEmpty(planChunk)),
                                parseInt(OrEmpty(planParallel)))
    /\ planPc' = IF Chunked(planSt') THEN "loop" ELSE "done"
    /\ UNCHANGED <<planSize, planChunk, planParallel, planOffset, planBatches>>
    /\ UNCHANGED <<mergeVars, jobVars, clientVars>>

\* one iteration of while (offset < fileSize)
PlanBatch ==
    /\ planPc = "loop"
    /\ planOffset < planSize
    /\ LET b == NextBatch(planOffset, Num(planSize), planSt)
       IN  /\ planBatches' = Append(planBatches, b)
           /\ planOffset' = planOffset + Len(b) * planSt.chunkSize
    /\ UNCHANGED <<planPc, planSize, planChunk, planParallel, planSt>>
    /\ UNCHANGED <<mergeVars, jobVars, clientVars>>

PlanExit ==
    /\ planPc = "loop"
    /\ ~(planOffset < planSize)
    /\ planPc' = "done"
    /\ UNCHANGED <<planSize, planChunk, planParallel, planSt, planOffset, planBatches>>
    /\ UNCHANGED <<mergeVars, jobVars, clientVars>>

PlanIdle ==
    /\ planPc = "idle"
    /\ planSize = 0
    /\ planChunk = Null
    /\ planParallel = Null
    /\ planSt = NoStrategy
    /\ planOffset = 0
    /\ planBatches = <<>>

PlanNext == PlanSelect \/ PlanBatch \/ PlanExit

\* ------------------------------------------------------------------------
\* mergeResults applied to bounded chunk lists
\* ------------------------------------------------------------------------
MaxChunks == 2
MaxSegs == 2

NoMerge == [text |-> <<>>, segments |-> <<>>, words |-> <<>>]

\* chunk-local segments the engine may report, in chronological order
SegPool == << [start |-> 0, end |-> 5, text |-> <<"a">>, words |-> <<>>],
              [start |-> 0, end |-> 6, text |-> <<"A", ".">>, words |-> <<>>],
              [start |-> 0, end |-> 10, text |-> <<"a">>, words |-> <<>>],
              [start |-> 6, end |-> 9, text |-> <<" ", "b", " ">>, words |-> <<>>] >>
RECURSIVE PickFrom(_, _)
PickFrom(i, S) == IF i > Len(SegPool) THEN <<>>
                  ELSE IF i \in S THEN <<SegPool[i]>> \o PickFrom(i + 1, S)
                  ELSE PickFrom(i + 1, S)
SegLists == {PickFrom(1, S) : S \in {T \in SUBSET (1..Len(SegPool)) : Cardinality(T) <= MaxSegs}}
WordLists == {<<>>, <<[word |-> <<"a">>, start |-> 0, end |-> 1]>>}
MergeDurations == {0, 1, 4}
MergeChunkBytes == 4
MergeOffsets == {0, MergeChunkBytes, 2 * MergeChunkBytes}
ResultPool == {[segments |-> sl, words |-> wl, duration |-> d] :
               sl \in SegLists, wl \in WordLists, d \in MergeDurations}

\* chunk lists of at most MaxChunks results with pairwise distinct offsets
MergeStart ==
    /\ mergePc = "start"
    /\ \E n \in 0..MaxChunks :
          \E offs \in [1..n -> MergeOffsets] :
             /\ \A i, j \in 1..n : i # j => offs[i] # offs[j]
             /\ \E rs \in [1..n -> ResultPool] :
                   mergeIn = [i \in 1..n |->
                                [offset |-> offs[i], chunkSize |-> MergeChunkBytes,
                                 result |-> rs[i]]]
    /\ mergeOut = NoMerge

MergeIdle ==
    /\ mergePc = "idle"
    /\ mergeIn = <<>>
    /\ mergeOut = NoMerge

MergeRun ==
    /\ mergePc = "start"
    /\ mergeOut' = mergeResults(mergeIn)
    /\ mergePc' = "done"
    /\ UNCHANGED mergeIn
    /\ UNCHANGED <<planVars, jobVars, clientVars>>

MergeNext == MergeRun

\* ------------------------------------------------------------------------
\* The client-driven variant: run() of scripts/chunk-transcriber.ts asks the
\* worker of part_003 for one chunk per request.  The origin answers a range
\* request with the bytes of the range it has, all of them or fewer.
\* ------------------------------------------------------------------------
\* part_003:5
CHUNK_SIZE == 2 * 1024 * 1024
\* length of a response that carries fewer bytes than the range asked for
SHORT_READ == 1000000
ClientSizes == {0, SHORT_READ, 2 * CHUNK_SIZE, 5000000}

Undefined == [defined |-> FALSE, value |-> [segments |-> <<>>, words |-> <<>>, duration |-> 0]]
Defined(v) == [defined |-> TRUE, value |-> v]
NoOut == [status |-> "none", workerStatus |-> 0, text |-> <<>>]

\* const offset = offsetParam ? parseInt(offsetParam, 10) : 0 (part_003:30)
WorkerOffset(offsetParam) == IF Falsy(offsetParam) THEN Num(0) ELSE parseInt(offsetParam.s)
\* const nextOffset = offset + buffer.byteLength (part_003:86)
WorkerNextOffsetFullChunk(from, byteLength) == from + CHUNK_SIZE
WorkerNextOffset(from, byteLength) == from + byteLength

\* mergeResults of the client (chunk-transcriber.ts:32-102): result.segments
\* throws on an undefined result; result.chunkSize is not a field of the
\* engine's answer, so offset / undefined is NaN and the shift is the fallback
ClientMergeThrows(chunks) == \E k \in 1..Len(chunks) : ~chunks[k].result.defined
ClientMerge(chunks) ==
    mergeResults([k \in 1..Len(chunks) |->
                    [offset |-> chunks[k].offset, chunkSize |-> 0,
                     result |-> chunks[k].result.value]])

\* body lengths the origin may send for bytes=from-end
RangeBodies(from, end) ==
    LET available == Min(end + 1, cSize) - from
    IN  IF available <= 0 THEN {0}
        ELSE {available} \cup (IF SHORT_READ < available THEN {SHORT_READ} ELSE {})
\* status 0: the fetch rejects; status -1: the 20 s timer aborts it
OriginStatuses == {-1, 0, 200, 206, 401, 403, 404, 416, 500}

ClientStart ==
    /\ cPc = "loop"
    /\ cSize \in ClientSizes
    /\ cOffset = 0
    /\ cChunks = <<>>
    /\ cRequests = <<>>
    /\ wOffset = Num(0)
    /\ wBuffer = 0
    /\ workerLog = <<>>
    /\ cEngine = <<>>
    /\ cOut = NoOut

ClientIdle ==
    /\ cPc = "idle"
    /\ cSize = 0
    /\ cOffset = 0
    /\ cChunks = <<>>
    /\ cRequests = <<>>
    /\ wOffset = Num(0)
    /\ wBuffer = 0
    /\ workerLog = <<>>
    /\ cEngine = <<>>
    /\ cOut = NoOut

\* if (!res.ok) throw, caught by run() (chunk-transcriber.ts:118-121, 138-141)
WorkerFailed(status) ==
    /\ cPc' = "failed"
    /\ cOut' = [status |-> "error", workerStatus |-> status, text |-> <<>>]

\* run() requests the current offset; the worker parses it and sends the
\* range request (chunk-transcriber.ts:112-116, part_003:22-47)
ClientRequest ==
    /\ cPc = "loop"
    /\ cRequests' = Append(cRequests, cOffset)
    /\ LET off == WorkerOffset(Str(Numeral(cOffset)))
       IN  /\ wOffset' = off
           /\ IF off.nan \/ off.v < 0
              THEN WorkerFailed(400)
              ELSE cPc' = "origin" /\ UNCHANGED cOut
    /\ UNCHANGED <<cSize, cOffset, cChunks, wBuffer, workerLog, cEngine>>
    /\ UNCHANGED <<jobVars, planVars, mergeVars>>

\* the origin answers: the worker's status checks, the empty-buffer answer
\* { done: true } or the engine call (part_003:48-84); on done the client
\* pushes the entry, leaves the loop and merges (chunk-transcriber.ts:123-136)
OriginResp ==
    /\ cPc = "origin"
    /\ \E status \in OriginStatuses :
       \E n \in IF status \in {200, 206}
                THEN RangeBodies(wOffset.v, wOffset.v + CHUNK_SIZE - 1) ELSE {0} :
          IF status = -1 THEN WorkerFailed(504) /\ UNCHANGED <<cChunks, wBuffer, workerLog, cEngine>>
          ELSE IF status = 0 THEN WorkerFailed(502) /\ UNCHANGED <<cChunks, wBuffer, workerLog, cEngine>>
          ELSE IF status \in {401, 403}
          THEN WorkerFailed(status) /\ UNCHANGED <<cChunks, wBuffer, workerLog, cEngine>>
          ELSE IF status >= 500 THEN WorkerFailed(502) /\ UNCHANGED <<cChunks, wBuffer, workerLog, cEngine>>
          ELSE IF ~OriginStatusOk(status)
          THEN WorkerFailed(400) /\ UNCHANGED <<cChunks, wBuffer, workerLog, cEngine>>
          ELSE IF n = 0
          THEN LET chunks == Append(cChunks, [offset |-> cOffset, result |-> Undefined])
               IN  /\ cChunks' = chunks
                   /\ workerLog' = Append(workerLog, [offset |-> wOffset.v, bytes |-> 0,
                                                      done |-> TRUE])
                   /\ wBuffer' = 0
                   /\ IF ClientMergeThrows(chunks)
                      THEN /\ cPc' = "failed"
                           /\ cOut' = [status |-> "error", workerStatus |-> 200,
                                       text |-> <<>>]
                      ELSE /\ cPc' = "printed"
                           /\ cOut' = [status |-> "printed", workerStatus |-> 200,
                                       text |-> ClientMerge(chunks).text]
                   /\ UNCHANGED cEngine
          ELSE /\ wBuffer' = n
               /\ cEngine' = Append(cEngine, [from |-> wOffset.v, len |-> n])
               /\ cPc' = "ai"
               /\ UNCHANGED <<cChunks, workerLog, cOut>>
    /\ UNCHANGED <<cSize, cOffset, cRequests, wOffset>>
    /\ UNCHANGED <<jobVars, planVars, mergeVars>>

\* the engine answers: the worker returns { done: false, offset, nextOffset,
\* chunkSize, result } or, from its catch, 500 (part_003:82-98); the client
\* pushes the entry and moves its offset (chunk-transcriber.ts:123-130)
ClientEngineResp ==
    /\ cPc = "ai"
    /\ \E ok \in BOOLEAN :
          IF ok
          THEN /\ cChunks' = Append(cChunks, [offset |-> cOffset,
                                              result |-> Defined(Whisper(AudioPayload(wBuffer)))])
               /\ workerLog' = Append(workerLog, [offset |-> wOffset.v, bytes |-> wBuffer,
                                                  done |-> FALSE])
               /\ cOffset' = WorkerNextOffset(wOffset.v, wBuffer)
               /\ cPc' = "loop"
               /\ UNCHANGED cOut
          ELSE WorkerFailed(500) /\ UNCHANGED <<cChunks, workerLog, cOffset>>
    /\ UNCHANGED <<cSize, cRequests, wOffset, wBuffer, cEngine>>
    /\ UNCHANGED <<jobVars, planVars, mergeVars>>

ClientNext == ClientRequest \/ OriginResp \/ ClientEngineResp

\* ------------------------------------------------------------------------
\* Specifications
\* ------------------------------------------------------------------------
PlanInit == PlanStart /\ MergeIdle /\ JobIdle /\ ClientIdle
MergeInit == MergeStart /\ PlanIdle /\ JobIdle /\ ClientIdle
Init == JobStart /\ PlanIdle /\ MergeIdle /\ ClientIdle
ClientInit == ClientStart /\ JobIdle /\ PlanIdle /\ MergeIdle
Next == JobNext

SpecPlan == PlanInit /\ [][PlanNext]_vars
SpecMerge == MergeInit /\ [][MergeNext]_vars
SpecClient == ClientInit /\ [][ClientNext]_vars
Spec == Init /\ [][Next]_vars
\* every awaited call (fetch, resolveUrl, env.AI.run) eventually settles and
\* the code waiting for it then runs
SpecLive == Init /\ [][Next]_vars /\ WF_vars(Next)

RECURSIVE Flatten(_)
Flatten(ss) == IF ss = <<>> THEN <<>> ELSE Head(ss) \o Flatten(Tail(ss))
planTasks == Flatten(planBatches)

\* ------------------------------------------------------------------------
\* Properties of the partition plan
\* ------------------------------------------------------------------------
MB == 1024 * 1024

\* C1: for a known totalSize in a chunked strategy and chunkSize >= 1, the
\* generated tasks have offsets 0, c, 2c, ..., each task is
\* [offset, min(offset + c - 1, totalSize - 1)], consecutive tasks are
\* adjacent, and when the loop ends the last task ends at totalSize - 1
\* (21_000_000 / 8_000_000 gives 0, 8_000_000, 16_000_000, end 20_999_999).
C1_ChunkCoverage ==
    Chunked(planSt) =>
        LET c == planSt.chunkSize
            t == planTasks
        IN  /\ c >= 1
            /\ \A i \in 1..Len(t) :
                   /\ t[i].offset = (i - 1) * c
                   /\ t[i].end = Min(t[i].offset + c - 1, planSize - 1)
                   /\ t[i].offset <= t[i].end
            /\ \A i \in 2..Len(t) : t[i].offset = t[i - 1].end + 1
            /\ (planPc = "done" => /\ Len(t) >= 1
                                   /\ t[1].offset = 0
                                   /\ t[Len(t)].end = planSize - 1)
            /\ (planPc = "done" /\ planSize = 21000000 /\ c = 8000000 =>
                   t = << [offset |-> 0, end |-> 7999999],
                          [offset |-> 8000000, end |-> 15999999],
                          [offset |-> 16000000, end |-> 20999999] >>)

C1_Witness ==
    /\ planPc = "done"
    /\ planSize = 21000000
    /\ planSt.chunkSize = 8000000
    /\ Len(planTasks) = 3
    /\ planTasks[3].end = 20999999

\* C4: without overrides the strategy is determined by totalSize alone:
\* 0 -> UnknownSizeFallback; (0, 20MB] -> SingleShot; (20MB, 50MB] ->
\* MediumParallel, chunk 8MB (4MB above 40MB), parallelism 10; above 50MB ->
\* SafeParallel, chunk 2MB, parallelism 3.
C4_Expected(n) ==
    IF n = 0 THEN [kind |-> "UnknownSizeFallback", chunkSize |-> 0, maxParallel |-> 0]
    ELSE IF n <= 20 * MB THEN [kind |-> "SingleShot", chunkSize |-> 0, maxParallel |-> 0]
    ELSE IF n <= 40 * MB THEN [kind |-> "MediumParallel", chunkSize |-> 8 * MB, maxParallel |-> 10]
    ELSE IF n <= 50 * MB THEN [kind |-> "MediumParallel", chunkSize |-> 4 * MB, maxParallel |-> 10]
    ELSE [kind |-> "SafeParallel", chunkSize |-> 2 * MB, maxParallel |-> 3]

C4_StrategyTable ==
    (planPc # "start" /\ planChunk = Null /\ planParallel = Null) =>
        /\ planSt = C4_Expected(planSize)
        /\ (planSize = 10000000 => planSt.kind = "SingleShot")
        /\ (planSize = 30000000 => planSt.kind = "MediumParallel" /\ planSt.chunkSize = 8 * MB)
        /\ (planSize = 45000000 => planSt.kind = "MediumParallel" /\ planSt.chunkSize = 4 * MB)
        /\ (planSize = 100000000 => /\ planSt.kind = "SafeParallel"
                                    /\ planSt.chunkSize = 2 * MB
                                    /\ planSt.maxParallel = 3)

C4_Witness ==
    /\ planPc = "done"
    /\ planChunk = Null /\ planParallel = Null
    /\ planSize = 41943040
    /\ planSt.kind = "MediumParallel"
    /\ planSt.chunkSize = 8 * MB

\* ------------------------------------------------------------------------
\* Properties of mergeResults
\* ------------------------------------------------------------------------
placedSegments == PlaceChunks(mergeIn, <<>>, <<>>).segs
SortedByStart(segs) == \A i \in 1..(Len(segs) - 1) : segs[i].start <= segs[i + 1].start
\* the duplicate predicate of the spec: overlap / span > 0.5, same normalized text
DupPredicate(a, b) ==
    LET overlap == Max(0, Min(a.end, b.end) - Max(a.start, b.start))
        span == Max(Max(a.end - a.start, b.end - b.start), EPSILON)
    IN  2 * overlap > span /\ normalizeText(a.text) = normalizeText(b.text)

\* C9: the returned segments are sorted by start and no two consecutive
\* returned segments satisfy the duplicate predicate.
C9_SortedNoAdjacentDuplicates ==
    mergePc = "done" =>
        /\ SortedByStart(mergeOut.segments)
        /\ \A i \in 1..(Len(mergeOut.segments) - 1) :
               ~DupPredicate(mergeOut.segments[i], mergeOut.segments[i + 1])

\* the part of C9 that the code does keep: the output is sorted by start
C9_SortedOnly == mergePc = "done" => SortedByStart(mergeOut.segments)

C10_Case ==
    /\ Len(mergeIn) = 2
    /\ Len(mergeIn[1].result.segments) = 1
    /\ Len(mergeIn[2].result.segments) = 1
    /\ DupPredicate(placedSegments[1], placedSegments[2])

\* C10 as stated: of two duplicate segments from two chunk results, exactly
\* one is kept and it is the segment of the later-provided chunk result.
C10_KeepsLaterProvided ==
    (mergePc = "done" /\ C10_Case) => mergeOut.segments = <<placedSegments[2]>>

\* C10 amended: exactly one is kept, and it is the segment with the later
\* global start time (the later-provided one when the start times are equal).
C10_KeepsLaterStart ==
    (mergePc = "done" /\ C10_Case) =>
        mergeOut.segments =
            << IF placedSegments[1].start > placedSegments[2].start
               THEN placedSegments[1] ELSE placedSegments[2] >>

C10_Witness ==
    /\ mergePc = "done"
    /\ C10_Case
    /\ mergeIn[1].offset < mergeIn[2].offset
    /\ placedSegments[1].start > placedSegments[2].start
    /\ mergeOut.segments = <<placedSegments[1]>>

\* C11: when no two globally placed segments overlap in time, the output
\* holds every placed segment (with its multiplicity), in chronological
\* order, and as many segments as the input chunk results hold together.
Overlap(a, b) == Max(0, Min(a.end, b.end) - Max(a.start, b.start))
NoOverlap(segs) ==
    \A i, j \in 1..Len(segs) : i # j => Overlap(segs[i], segs[j]) = 0
Occurrences(x, seq) == Cardinality({i \in 1..Len(seq) : seq[i] = x})
RECURSIVE SumSegmentCounts(_)
SumSegmentCounts(chunks) ==
    IF chunks = <<>> THEN 0
    ELSE Len(Head(chunks).result.segments) + SumSegmentCounts(Tail(chunks))
C11_NoOverlapKeepsAll ==
    LET placed == placedSegments
    IN  (mergePc = "done" /\ NoOverlap(placed)) =>
            /\ Len(mergeOut.segments) = SumSegmentCounts(mergeIn)
            /\ \A i \in 1..Len(placed) :
                   Occurrences(placed[i], mergeOut.segments) = Occurrences(placed[i], placed)
            /\ SortedByStart(mergeOut.segments)

\* two chunk results whose segments carry the same normalized text and do
\* not overlap once placed
C11_Witness ==
    LET placed == placedSegments
    IN  /\ mergePc = "done"
        /\ NoOverlap(placed)
        /\ Len(mergeIn) = 2
        /\ Len(mergeIn[1].result.segments) >= 1
        /\ Len(mergeIn[2].result.segments) = 2
        /\ \E i, j \in 1..Len(placed) :
              /\ i # j
              /\ normalizeText(placed[i].text) = normalizeText(placed[j].text)
        /\ Len(mergeOut.segments) = Len(placed)

\* C12: for chunk results that all report a non-zero duration, every
\* permutation of the input list yields the same text, segment list and
\* word list.
InputOrders(n) == {f \in [1..n -> 1..n] : \A i, j \in 1..n : i # j => f[i] # f[j]}
Permuted(seq, f) == [i \in 1..Len(seq) |-> seq[f[i]]]
AllDurationsNonZero == \A i \in 1..Len(mergeIn) : mergeIn[i].result.duration # 0
C12_OrderIndependent ==
    (mergePc = "done" /\ AllDurationsNonZero) =>
        \A f \in InputOrders(Len(mergeIn)) : mergeResults(Permuted(mergeIn, f)) = mergeOut

\* C20: a chunk result with byte offset o, byte length L and duration d is
\* shifted by (o / L) * d when that product is non-zero, and by the end time
\* of the last segment appended to the global list so far (0 if none)
\* otherwise; its segments and words enter the global lists with start and
\* end moved by that shift, and every shifted word is in the returned words.
C20_Shift(c, prior) ==
    IF c.chunkSize # 0 /\ c.offset * c.result.duration # 0
    THEN (c.offset * c.result.duration) \div c.chunkSize
    ELSE IF prior = <<>> THEN 0 ELSE prior[Len(prior)].end
C20_Moved(x, sh) == [x EXCEPT !.start = x.start + sh, !.end = x.end + sh]
RECURSIVE C20_GlobalSegments(_)
C20_GlobalSegments(k) ==
    IF k = 0 THEN <<>>
    ELSE LET prior == C20_GlobalSegments(k - 1)
             c == mergeIn[k]
             sh == C20_Shift(c, prior)
         IN  prior \o [j \in 1..Len(c.result.segments) |->
                          [C20_Moved(c.result.segments[j], sh) EXCEPT
                              !.words = [w \in 1..Len(c.result.segments[j].words) |->
                                           C20_Moved(c.result.segments[j].words[w], sh)]]]
RECURSIVE C20_GlobalWords(_)
C20_GlobalWords(k) ==
    IF k = 0 THEN <<>>
    ELSE LET c == mergeIn[k]
             sh == C20_Shift(c, C20_GlobalSegments(k - 1))
         IN  C20_GlobalWords(k - 1)
             \o [j \in 1..Len(c.result.words) |-> C20_Moved(c.result.words[j], sh)]
C20_TimeShift ==
    mergePc = "done" =>
        LET placed == PlaceChunks(mergeIn, <<>>, <<>>)
            globalWords == C20_GlobalWords(Len(mergeIn))
        IN  /\ placed.segs = C20_GlobalSegments(Len(mergeIn))
            /\ placed.words = globalWords
            /\ Len(mergeOut.words) = Len(globalWords)
            /\ \A w \in 1..Len(globalWords) :
                   Occurrences(globalWords[w], mergeOut.words)
                       = Occurrences(globalWords[w], globalWords)

\* a chunk shifted by (o / L) * d followed by one without duration, which is
\* shifted by the end of the last segment placed before it
C20_Witness ==
    /\ mergePc = "done"
    /\ Len(mergeIn) = 2
    /\ mergeIn[1].offset = MergeChunkBytes
    /\ mergeIn[1].result.duration = 4
    /\ Len(mergeIn[1].result.segments) = 1
    /\ mergeIn[1].result.words # <<>>
    /\ mergeIn[2].offset = 2 * MergeChunkBytes
    /\ mergeIn[2].result.duration = 0
    /\ Len(mergeIn[2].result.segments) = 1
    /\ mergeIn[2].result.words # <<>>
    /\ placedSegments[1].start = mergeIn[1].result.segments[1].start + 4
    /\ placedSegments[2].start = mergeIn[2].result.segments[1].start + placedSegments[1].end
    /\ placedSegments[1].end > 4
    /\ \E w \in 1..Len(mergeOut.words) : mergeOut.words[w].start = placedSegments[1].end

\* C22: the segments of the chunk result at byte offset 0 keep their
\* chunk-local timestamps in the global list, whatever the position of that
\* chunk result in the input list and whatever duration it reports.
C22_OffsetZeroAtTimeZero ==
    mergePc = "done" =>
        LET placed == placedSegments
        IN  \A k \in 1..Len(mergeIn) :
                mergeIn[k].offset = 0 =>
                    LET base == SumSegmentCounts(SubSeq(mergeIn, 1, k - 1))
                        segs == mergeIn[k].result.segments
                    IN  \A j \in 1..Len(segs) :
                            /\ placed[base + j].start = segs[j].start
                            /\ placed[base + j].end = segs[j].end

\* ------------------------------------------------------------------------
\* Properties of the handler and of processChunk
\* ------------------------------------------------------------------------
SomeTaskFailed == \E i \in 1..Len(tasks) : tasks[i].pc = "failed"
RangeOffsetsSent == {e.offset : e \in {f \in fetchLog : f.kind = "range"}}
NoTranscript(r) == r.isError /\ r.text = <<>> /\ r.segments = <<>>

\* C2: once a chunk task has failed the response is an error payload with
\* status 500 and no text or segments, and no further batch is dispatched; a
\* success response of a chunked job has one result for every task sent.
C2_FailFast ==
    /\ [](SomeTaskFailed => /\ pc = "responded"
                            /\ response.status = 500
                            /\ NoTranscript(response))
    /\ []((response.status = 200 /\ Chunked(st)) =>
             /\ \A i \in 1..Len(tasks) : tasks[i].pc = "done"
             /\ Len(allChunks) = Cardinality(RangeOffsetsSent)
             /\ \A o \in RangeOffsetsSent : \E k \in 1..Len(allChunks) : allChunks[k].offset = o)
    /\ [][SomeTaskFailed => (batchNo' = batchNo /\ response' = response
                              /\ RangeOffsetsSent' = RangeOffsetsSent)]_vars

C2_Witness ==
    /\ SomeTaskFailed
    /\ batchNo = 1
    /\ NumGt(fileSize, offset)
    /\ \E i \in 1..Len(tasks) : tasks[i].pc = "done"
    /\ response.status = 500

\* C3: a probe without a usable size (non-success status, no Content-Range,
\* or a Content-Range whose total is not a number) selects the
\* UnknownSizeFallback strategy and never ends in a success response built
\* from zero chunks.
UsableProbe ==
    /\ StatusOk(probeResp.status)
    /\ probeResp.contentRange = Str(BytesPrefix \o <<"/">> \o Numeral(originSize))
C3_ProbeAdvisory ==
    (probeResp.status # 0 /\ ~UsableProbe) =>
        /\ st.kind = "UnknownSizeFallback"
        /\ ~(response.status = 200 /\ allChunks = <<>>)

\* C5: in the chunked strategies the chunk size and the parallelism are the
\* caller's override when that parameter is a positive integer and the
\* default otherwise; SingleShot and UnknownSizeFallback send one whole-file
\* request and no range request whatever the overrides.
IsPositiveInteger(p) ==
    /\ ~p.isNull
    /\ p.s # <<>>
    /\ \A i \in 1..Len(p.s) : IsDigit(p.s[i])
    /\ DigitPrefix(p.s, 0) > 0
C5_DefaultChunk == IF fileSize.v > 50 * MB THEN 2 * MB
                   ELSE IF fileSize.v > 40 * MB THEN 4 * MB ELSE 8 * MB
C5_DefaultParallel == IF fileSize.v > 50 * MB THEN 3 ELSE 10
C5_Overrides ==
    (st # NoStrategy /\ ~fileSize.nan) =>
        IF Chunked(st)
        THEN /\ st.chunkSize = IF IsPositiveInteger(chunkParam)
                               THEN DigitPrefix(chunkParam.s, 0) ELSE C5_DefaultChunk
             /\ st.maxParallel = IF IsPositiveInteger(parallelParam)
                                 THEN DigitPrefix(parallelParam.s, 0) ELSE C5_DefaultParallel
        ELSE /\ RangeOffsetsSent = {}
             /\ Cardinality({f \in fetchLog : f.kind = "whole"}) = 1

\* C6: a task sends at most two range requests and calls resolveUrl at most
\* once; a 401 or 403 on the first request leads to exactly one resolveUrl
\* call and, once that has returned a URL, exactly one retry of the same
\* range; a 401 or 403 on the retry fails the task; a task that succeeds
\* after a retry returns what a task answered at once with the same body
\* returns.
C6_DirectResult(t) == [offset |-> t.offset, result |-> Whisper(t.payload),
                       chunkSize |-> t.payload.len]
C6_RetryOnce ==
    \A i \in 1..Len(tasks) :
        LET t == tasks[i]
        IN  /\ t.fetches <= 2
            /\ t.resolves <= 1
            /\ t.expired => t.resolves = 1
            /\ ~t.expired => (t.resolves = 0 /\ t.fetches = 1)
            /\ (t.expired /\ t.pc # "resolving" /\ t.err # "resolve") =>
                   /\ t.fetches = 2
                   /\ Cardinality({f \in fetchLog : /\ f.kind = "range"
                                                     /\ f.batch = batchNo
                                                     /\ f.offset = t.offset}) <= 2
            /\ (t.pc = "failed" /\ t.status \in {401, 403}) =>
                   (t.expired /\ t.fetches = 2 /\ t.err = "fetch")
            /\ t.pc = "done" => ChunkResult(t) = C6_DirectResult(t)

C6_Witness ==
    \E i \in 1..Len(tasks) :
        /\ tasks[i].pc = "done"
        /\ tasks[i].expired
        /\ tasks[i].fetches = 2
        /\ tasks[i].resolves = 1
        /\ tasks[i].url # url
        /\ \E j \in 1..Len(tasks) : tasks[j].pc = "failed" /\ tasks[j].status = 403

\* C7: every payload a range task hands to the engine is non-empty and has
\* none of '<!DOCTYPE', '<html', '{"error' within its first 64 bytes; a task
\* whose payload is empty or carries one of them there fails instead.
C7_BadHead(p) ==
    \/ p.len = 0
    \/ /\ p.sig \in {"<!DOCTYPE", "<html", "{\"error"}
       /\ p.sigPos + SigLen(p.sig) <= 64
       /\ p.sigPos + SigLen(p.sig) <= p.len
C7_PayloadGuard ==
    /\ \A e \in engineLog : e.src = "range" => ~C7_BadHead(e.payload)
    /\ \A i \in 1..Len(tasks) :
          tasks[i].pc \in {"ai", "done"} => ~C7_BadHead(tasks[i].payload)

C7_Witness ==
    /\ \E i \in 1..Len(tasks) : tasks[i].pc = "failed" /\ tasks[i].err = "validation"
    /\ \E e \in engineLog : e.src = "range" /\ e.payload.sig = SIG_ERROR

\* C8: the engine is called on a whole-file payload only when the payload
\* passes the sanity check of a chunk fetch and the declared content type
\* matches audio or video.
C8_WholeFileChecked ==
    \A e \in engineLog :
        e.src = "whole" => (~C7_BadHead(e.payload) /\ IsAudioVideo(OrEmpty(e.contentType)))

\* C13: on every successful job the reported bytesProcessed is the sum of
\* the byte lengths of the job's chunk results (stated for origins that
\* return every requested range in full).
RECURSIVE SumChunkBytes(_)
SumChunkBytes(chunks) ==
    IF chunks = <<>> THEN 0 ELSE Head(chunks).chunkSize + SumChunkBytes(Tail(chunks))
\* the origin answered every range request with all the bytes of the range
FullRanges ==
    \A k \in 1..Len(allChunks) :
        allChunks[k].chunkSize
            = Min(allChunks[k].offset + st.chunkSize, fileSize.v) - allChunks[k].offset
C13_BytesProcessed ==
    (response.status = 200 /\ (Chunked(st) => FullRanges)) =>
        response.meta.bytesProcessed = SumChunkBytes(allChunks)

\* C14: on every successful chunked job (with a numeric probed size) the
\* reported parallelism and chunkSize are the ones the partition loop used.
C14_MetaEchoesEffective ==
    (response.status = 200 /\ Chunked(st) /\ ~fileSize.nan) =>
        /\ response.meta.parallelism = Num(st.maxParallel)
        /\ response.meta.chunkSize = Num(st.chunkSize)

\* C15: for an input reference with a recognized media extension (in any
\* letter case) and a probed size in (0, 20MB], the resolver is never
\* contacted, every request goes to the input reference itself, no range
\* task is dispatched, and a successful job has exactly one chunk result, at
\* offset 0, whose segments are the transcript.
C15_RecognizedExt(s) ==
    \E ext \in MediaExts :
        /\ Len(s) > Len(ext)
        /\ toLowerCase(SubSeq(s, Len(s) - Len(ext), Len(s))) = <<".">> \o ext
C15_Case ==
    /\ ~inputUrl.isNull
    /\ C15_RecognizedExt(inputUrl.s)
    /\ UsableProbe
    /\ originSize > 0
    /\ originSize <= 20 * MB
C15_SingleShotDirect ==
    C15_Case =>
        /\ st.kind = "SingleShot"
        /\ resolverCalls = 0
        /\ url = 0
        /\ \A f \in fetchLog : f.url = 0 /\ f.kind \in {"probe", "whole"}
        /\ tasks = <<>>
        /\ batchNo = 0
        /\ \A e \in engineLog : e.src = "whole"
        /\ Cardinality(engineLog) <= 1
        /\ Len(allChunks) <= 1
        /\ response.status = 200 =>
               /\ Len(allChunks) = 1
               /\ allChunks[1].offset = 0
               /\ Cardinality(engineLog) = 1
               /\ response.segments = allChunks[1].result.segments
               /\ response.meta.segmentCount = Len(allChunks[1].result.segments)

C15_Witness ==
    /\ C15_Case
    /\ inputUrl.s = <<"v", ".", "M", "P", "3">>
    /\ originSize = 5000000
    /\ response.status = 200
    /\ Len(allChunks) = 1
    /\ response.segments # <<>>

\* C16: at every moment at most MAX_PARALLEL chunk tasks are in flight, all
\* of them tasks of the latest batch, and a batch is dispatched only when
\* the result of every task dispatched before it has been collected.
InFlightCount == Cardinality({i \in 1..Len(tasks) : InFlight(tasks[i])})
C16_BatchBarrier ==
    /\ [](Chunked(st) => (InFlightCount <= st.maxParallel /\ Len(tasks) <= st.maxParallel))
    /\ [](~Chunked(st) => tasks = <<>>)
    /\ [](\A i \in 1..Len(tasks) :
             \E f \in fetchLog :
                 f.kind = "range" /\ f.batch = batchNo /\ f.offset = tasks[i].offset)
    /\ [][batchNo' # batchNo =>
             /\ batchNo' = batchNo + 1
             /\ \A i \in 1..Len(tasks') : tasks'[i].pc = "fetch1"
             /\ Cardinality({i \in 1..Len(tasks) : tasks[i].pc # "done"}) <= 1
             /\ \A f \in fetchLog :
                    f.kind = "range" =>
                        \E k \in 1..Len(allChunks') : allChunks'[k].offset = f.offset]_vars

C16_Witness ==
    /\ batchNo = 2
    /\ st.maxParallel = 2
    /\ Len(allChunks) = 2
    /\ InFlightCount = 1
    /\ response.status = 0

\* C17: when a task of a batch has failed and the error response has been
\* returned, no chunk task is still in flight (waiting for a range
\* response, for the resolver or for the engine).
C17_NoTaskLeftInFlight ==
    (response.status # 0 /\ SomeTaskFailed) => InFlightCount = 0

\* C18: the resolver is contacted at most twice in a job, and a URL obtained
\* by a task's re-resolution is the handler's url from then on.
C18_ResolveAtMostTwice ==
    /\ resolverCalls <= 2
    /\ \A i \in 1..Len(tasks) :
          (tasks[i].expired /\ tasks[i].pc \in {"fetch2", "ai", "done"}) => url = tasks[i].url

\* C19: a chunk task whose final response status (after the at most one
\* retry) is neither 206 nor 200 fails with a fetch error carrying that
\* status; its body is not read into a result and the engine is never
\* called for it.  Only responses with status 200 or 206 reach the engine.
NoResult == [segments |-> <<>>, words |-> <<>>, duration |-> 0]
C19_BadStatusFails ==
    /\ \A i \in 1..Len(tasks) :
          LET t == tasks[i]
          IN  /\ t.pc \in {"ai", "done"} => t.status \in {200, 206}
              /\ t.status \notin {0, 200, 206} =>
                     /\ t.pc = "failed"
                     /\ t.err = "fetch"
                     /\ t.payload.len = 0
                     /\ t.result = NoResult
                     /\ \A e \in engineLog : ~(e.src = "range" /\ e.offset = t.offset)
              /\ (t.pc = "failed" /\ t.err = "fetch") => t.status \notin {200, 206}
    /\ \A e \in engineLog : e.src = "range" => e.status \in {200, 206}
    /\ \A k \in 1..Len(allChunks) :
          Chunked(st) =>
              \E e \in engineLog :
                  e.src = "range" /\ e.offset = allChunks[k].offset /\ e.status \in {200, 206}

C19_Witness ==
    /\ \E i \in 1..Len(tasks) :
          /\ tasks[i].pc = "failed"
          /\ tasks[i].status = 404
          /\ tasks[i].expired
          /\ tasks[i].fetches = 2
    /\ \E i \in 1..Len(tasks) : tasks[i].pc = "failed" /\ tasks[i].status = 500
    /\ response.status = 500

\* C21 as stated: when every external call eventually returns, a chunked
\* job eventually produces a response, and whenever it has produced one it
\* has dispatched exactly ceil(totalSize / chunkSize) chunk tasks in exactly
\* ceil(tasks / parallelism) batches.
CeilDiv(a, b) == (a + b - 1) \div b
TasksDispatched == Cardinality(RangeOffsetsSent)
ExactCounts ==
    /\ st.chunkSize >= 1
    /\ st.maxParallel >= 1
    /\ TasksDispatched = CeilDiv(fileSize.v, st.chunkSize)
    /\ batchNo = CeilDiv(TasksDispatched, st.maxParallel)
C21_RespondsWithExactCounts ==
    /\ [](Chunked(st) => <>(response.status # 0))
    /\ []((response.status # 0 /\ Chunked(st) /\ ~fileSize.nan) => ExactCounts)

\* C21 amended: the job eventually produces a response; a success response
\* comes after exactly ceil(totalSize / chunkSize) tasks in exactly
\* ceil(tasks / parallelism) batches, an error response after at most that
\* many.
C21_RespondsCountsOnSuccess ==
    /\ [](Chunked(st) => <>(response.status # 0))
    /\ []((response.status = 200 /\ Chunked(st) /\ ~fileSize.nan) => ExactCounts)
    /\ []((Chunked(st) /\ ~fileSize.nan) =>
             /\ TasksDispatched <= CeilDiv(fileSize.v, st.chunkSize)
             /\ batchNo <= CeilDiv(CeilDiv(fileSize.v, st.chunkSize), st.maxParallel))

C21_Witness ==
    /\ response.status = 200
    /\ fileSize = Num(21000000)
    /\ st.chunkSize = 8000000
    /\ st.maxParallel = 2
    /\ TasksDispatched = 3
    /\ batchNo = 2

\* C23: in every strategy the engine is called only on the body of a
\* response whose status was 200 or 206, and a whole-file fetch is never
\* followed by a call of the resolver.
C23_EngineOnlyOnSuccessStatus ==
    /\ \A e \in engineLog : e.status \in {200, 206}
    /\ (~Chunked(st) /\ st # NoStrategy) =>
           /\ Cardinality({f \in fetchLog : f.kind = "whole"}) <= 1
           /\ resolverCalls <= 1

\* ------------------------------------------------------------------------
\* Properties of the client-driven offset protocol
\* ------------------------------------------------------------------------
RECURSIVE SumLens(_)
SumLens(ranges) == IF ranges = <<>> THEN 0 ELSE Head(ranges).len + SumLens(Tail(ranges))
DoneReported == \E i \in 1..Len(workerLog) : workerLog[i].done

\* C24: the first requested offset is 0 and each next one is the previous
\* offset plus the number of bytes (at least one) the worker returned for it;
\* the byte ranges handed to the engine follow each other from byte 0
\* without gap or overlap, also after a response shorter than CHUNK_SIZE;
\* the response with done = true is the last one and nothing is requested
\* after it.
C24_ContiguousOffsets ==
    /\ [](/\ Len(cRequests) >= 1 => cRequests[1] = 0
          /\ \A i \in 2..Len(cRequests) :
                /\ ~workerLog[i - 1].done
                /\ workerLog[i - 1].offset = cRequests[i - 1]
                /\ workerLog[i - 1].bytes >= 1
                /\ cRequests[i] = cRequests[i - 1] + workerLog[i - 1].bytes
                /\ cRequests[i] > cRequests[i - 1]
          /\ \A i \in 1..Len(cEngine) :
                /\ cEngine[i].from = SumLens(SubSeq(cEngine, 1, i - 1))
                /\ cEngine[i].from = cRequests[i]
                /\ cEngine[i].len >= 1
                /\ cEngine[i].len <= CHUNK_SIZE
                /\ cEngine[i].from + cEngine[i].len <= cSize
          /\ \A i \in 1..Len(workerLog) :
                workerLog[i].done => (i = Len(workerLog) /\ i = Len(cRequests)
                                      /\ cPc \in {"printed", "failed"}))
    /\ [][DoneReported => cRequests' = cRequests]_vars

C24_Witness ==
    /\ cSize = 5000000
    /\ Len(cRequests) = 4
    /\ DoneReported
    /\ \E i \in 1..Len(workerLog) : workerLog[i].bytes = SHORT_READ
    /\ SumLens(cEngine) = cSize

\* C25: every entry the client hands to mergeResults carries a result, and
\* when the worker has reported done the client ends by printing the merged
\* transcript.
C25_DoneReachesMerge ==
    /\ \A k \in 1..Len(cChunks) : cChunks[k].result.defined
    /\ DoneReported => cOut.status = "printed"

====
